---- MODULE Spec2Model ----
(***************************************************************************)
(* Model of domb/fret/e_fret/coef_calc.py: background correction, the      *)
(* crosstalk estimator (CrossReg) and the FRET/G estimator (GReg).         *)
(*                                                                         *)
(* Images are flattened: a frame is a function from Pixels to intensities, *)
(* a channel stack a function from Frames to frames, a raw image a         *)
(* function from the channel index 0..3 to channel stacks.  float64        *)
(* values are exact rationals [k, n, d] (k = "fin"), or the IEEE specials  *)
(* "nan" and "inf".  uint16 values are naturals reduced modulo 2^16.       *)
(***************************************************************************)
EXTENDS Integers, Sequences, FiniteSets, TLC

VARIABLES bc, cr, cfit, gr, gfit, cset, gset

vars == <<bc, cr, cfit, gr, gfit, cset, gset>>

\* ------------------------------------------------------------------ bounds
NPix == 4
NFrames == 2
MaxRegs == 2

Pixels == 1..NPix
Frames == 0..(NFrames - 1)
ChanIdx == 0..3

\* --------------------------------------------------------- program constants
U16Mod == 65536
PctRank == 1
PctFull == 100

\* ------------------------------------------------------------ number helpers
Abs(x) == IF x < 0 THEN -x ELSE x

Max2(x, y) == IF x >= y THEN x ELSE y

RECURSIVE GCD(_, _)
GCD(x, y) == IF y = 0 THEN x ELSE GCD(y, x % y)

\* float64 values: exact rationals in lowest terms, NaN and +inf
Rat(n, d) ==
    LET g == GCD(Abs(n), Abs(d))
        s == IF d < 0 THEN -1 ELSE 1
    IN  [k |-> "fin", n |-> (s * n) \div g, d |-> (s * d) \div g]

FInt(i) == [k |-> "fin", n |-> i, d |-> 1]

NaN == [k |-> "nan", n |-> 0, d |-> 1]

Inf == [k |-> "inf", n |-> 1, d |-> 1]

IsFin(x) == x.k = "fin"

\* x + y for non-negative operands or finite ones (no -inf arises here)
FAdd(x, y) ==
    IF x.k = "nan" \/ y.k = "nan" THEN NaN
    ELSE IF x.k = "inf" \/ y.k = "inf" THEN Inf
    ELSE LET g == GCD(x.d, y.d)
         IN  Rat(x.n * (y.d \div g) + y.n * (x.d \div g), (x.d \div g) * y.d)

\* x - y for finite operands; with an infinite operand the callers below
\* only ask whether the result is finite (inf - inf is NaN)
FSub(x, y) ==
    IF x.k = "nan" \/ y.k = "nan" THEN NaN
    ELSE IF x.k = "inf" /\ y.k = "inf" THEN NaN
    ELSE IF x.k = "inf" \/ y.k = "inf" THEN Inf
    ELSE LET g == GCD(x.d, y.d)
         IN  Rat(x.n * (y.d \div g) - y.n * (x.d \div g), (x.d \div g) * y.d)

FMul(x, y) ==
    IF x.k = "nan" \/ y.k = "nan" THEN NaN
    ELSE IF x.k = "inf" \/ y.k = "inf" THEN
        (IF (x.k = "fin" /\ x.n = 0) \/ (y.k = "fin" /\ y.n = 0) THEN NaN ELSE Inf)
    ELSE Rat(x.n * y.n, x.d * y.d)

\* x / i for an integer count i > 0
FDivInt(x, i) ==
    IF x.k = "fin" THEN Rat(x.n, x.d * i) ELSE x

\* numpy true division of two unsigned integers: x/0 is inf, 0/0 is NaN
UDiv(x, y) ==
    IF y = 0 THEN (IF x = 0 THEN NaN ELSE Inf) ELSE Rat(x, y)

FGtZero(x) == x.k = "inf" \/ (x.k = "fin" /\ x.n > 0)

RECURSIVE FSumSeq(_)
FSumSeq(s) == IF s = <<>> THEN FInt(0) ELSE FAdd(s[1], FSumSeq(Tail(s)))

\* np.mean over a sequence of floats; the mean of nothing is NaN
FMeanSeq(s) == IF s = <<>> THEN NaN ELSE FDivInt(FSumSeq(s), Len(s))

\* np.std squared (population variance); np.std is its square root
FVarSeq(s) ==
    LET m == FMeanSeq(s)
        dev == [i \in DOMAIN s |-> FMul(FSub(s[i], m), FSub(s[i], m))]
    IN  IF \E i \in DOMAIN s : ~IsFin(s[i]) THEN NaN ELSE FMeanSeq(dev)

\* the pixels of a set in raster order
RECURSIVE SetToSeq(_)
SetToSeq(S) ==
    IF S = {} THEN <<>>
    ELSE LET m == CHOOSE x \in S : \A y \in S : x <= y
         IN  <<m>> \o SetToSeq(S \ {m})

U16(x) == x % U16Mod

\* ------------------------------------------------------ background correction
\* the k-th smallest value (k from 0) of a frame
KthSmallest(f, k) ==
    CHOOSE v \in {f[p] : p \in DOMAIN f} :
        /\ Cardinality({p \in DOMAIN f : f[p] < v}) <= k
        /\ Cardinality({p \in DOMAIN f : f[p] <= v}) > k

\* np.percentile(f, 1) times 100: linear interpolation at the virtual index
\* (n - 1) * 1/100 of the sorted frame
Percentile(f) ==
    LET n == Cardinality(DOMAIN f)
        pos == PctRank * (n - 1)
        lo == pos \div PctFull
        hi == IF lo + 1 <= n - 1 THEN lo + 1 ELSE lo
        a == KthSmallest(f, lo)
        b == KthSmallest(f, hi)
    IN  PctFull * a + (b - a) * (pos % PctFull)

\* one frame of bc_p_m: f - percentile, clip(min=0), astype(uint16)
BcFrameGlobal(f, p100) ==
    [p \in DOMAIN f |->
        LET diff == PctFull * f[p] - p100
        IN  IF diff <= 0 THEN 0 ELSE U16(diff \div PctFull)]

\* all frames of a stack laid end to end
bc_p_m_AllFrames(x) ==
    LET all == [i \in 1..(NFrames * NPix) |-> x[(i - 1) \div NPix][((i - 1) % NPix) + 1]]
    IN  [f \in DOMAIN x |-> BcFrameGlobal(x[f], Percentile(all))]

bc_p_m(x) == [f \in DOMAIN x |-> BcFrameGlobal(x[f], Percentile(x[f]))]

\* ------------------------------------------------------------------- inputs
\* a frame that repeats a short pattern of intensities over the pixels
Pat(seq) == [p \in Pixels |-> seq[((p - 1) % Len(seq)) + 1]]

\* a channel stack whose frames repeat a short list of patterns
Stk(pats) == [f \in Frames |-> Pat(pats[(f % Len(pats)) + 1])]

BcPatterns ==
    { <<0, 5, 9, 5>>, <<7, 7, 2, 7>>, <<4, 4, 4, 4>>, <<65535, 0, 100, 7>>, <<3, 103, 1, 50>>,
      <<65535, 65535, 65534, 65535>>, <<10, 20, 20, 30>>, <<1, 0>>, <<0, 0, 0, 1>> }

None == [kind |-> "none"]

\* ------------------------------------------------------------- label maps
\* measure.label on a mask (pixels in a row, neighbours are adjacent): 0 is
\* background, the regions are numbered 1..K in raster order
measure_label(mask) ==
    [p \in DOMAIN mask |->
        IF mask[p]
        THEN Cardinality({q \in DOMAIN mask : q <= p /\ mask[q] /\ (q - 1 \in DOMAIN mask => ~mask[q - 1])})
        ELSE 0]

\* np.max(label)
NumLabels(label) ==
    LET used == {label[p] : p \in DOMAIN label}
    IN  CHOOSE m \in used : \A v \in used : v <= m

\* the masks a segmentation can return
Masks == [Pixels -> BOOLEAN]

RegionPixels(label, r) == {p \in DOMAIN label : label[p] = r}

\* ------------------------------------------------------------------ CrossReg
CrossChanStacks ==
    { << <<2, 6, 10, 6>>, <<2, 8, 10, 4>> >>,
      << <<9, 5, 1, 5>>, <<9, 7, 1, 3>> >> }

ExpLists == { <<10, 20>> }

ImgTypes == {"A", "D"}

Modes == {"a", "b", "c", "d", "g"}

\* np.mean(img, axis=0): the mean over the frames, pixel by pixel
MeanImg(img) ==
    [p \in DOMAIN img[0] |->
        FMeanSeq([i \in 1..Cardinality(DOMAIN img) |-> FInt(img[i - 1][p])])]

\* CrossReg.__init__; mask is what the segmentation (Otsu threshold, closing,
\* erosion) returned for the mean image
CrossRegNew(img, img_name, exp_list, img_type, mask) ==
    [kind |-> "CrossReg",
     img_name |-> img_name,
     img_type |-> img_type,
     img_raw |-> img,
     D_exp |-> exp_list[1],
     A_exp |-> exp_list[2],
     DD_img |-> bc_p_m(img[0]),
     DA_img |-> bc_p_m(img[1]),
     AD_img |-> bc_p_m(img[2]),
     AA_img |-> bc_p_m(img[3]),
     DD_mean_img |-> MeanImg(bc_p_m(img[0])),
     AA_mean_img |-> MeanImg(bc_p_m(img[3])),
     seg_src |-> IF img_type = "A" THEN "AA_img" ELSE "DD_img",
     mask |-> mask,
     label |-> measure_label(mask),
     coef |-> <<>>,
     cross_raw_df |-> <<>>,
     cross_df |-> <<>>]

\* np.std of a profile: the square root of its population variance
FStd(s) == [k |-> "sqrt", of |-> FVarSeq(s)]

\* image series num / den, pixel by pixel (uint16 / uint16 gives float64)
RatioSeries(num, den) ==
    [f \in DOMAIN num |-> [p \in DOMAIN num[f] |-> UDiv(num[f][p], den[f][p])]]

\* masking.label_prof_arr (second result): for every positive label, the
\* mean of the series under that label, frame by frame
label_prof_arr(input_label, input_img_series) ==
    [r \in 1..NumLabels(input_label) |->
        [f \in DOMAIN input_img_series |->
            FMeanSeq([i \in 1..Cardinality(RegionPixels(input_label, r)) |->
                input_img_series[f][SetToSeq(RegionPixels(input_label, r))[i]]])]]

\* np.mean(prof_arr, axis=0): one value per frame, averaged over the regions
ProfMean(prof_arr) ==
    [i \in 1..NFrames |-> FMeanSeq([r \in 1..Len(prof_arr) |-> prof_arr[r][i - 1]])]

\* the numerator and denominator channels of each coefficient in cross_calc
CalcNumWrong(self, c) ==
    CASE c = "a" -> self.DA_img
      [] c = "b" -> self.DD_img
      [] c = "c" -> self.AA_img
      [] c = "d" -> self.AD_img

CalcNum(self, c) ==
    CASE c = "a" -> self.DA_img
      [] c = "b" -> self.AD_img
      [] c = "c" -> self.AA_img
      [] c = "d" -> self.DA_img

CalcDen(self, c) ==
    CASE c = "a" -> self.AA_img
      [] c = "b" -> self.AA_img
      [] c = "c" -> self.DD_img
      [] c = "d" -> self.DD_img

\* profile, mean and sd of one coefficient
CoefEstimate(self, c) ==
    LET prof_arr == label_prof_arr(self.label, RatioSeries(CalcNum(self, c), CalcDen(self, c)))
        prof_mean == ProfMean(prof_arr)
    IN  [prof_arr |-> prof_arr,
         prof_mean |-> prof_mean,
         val |-> FMeanSeq(prof_mean),
         sd |-> FStd(prof_mean)]

\* the raw table of one coefficient: one row per frame of its profile
RawRows(self, c, est) ==
    [i \in 1..Len(est.prof_mean) |->
        [ID |-> self.img_name, type |-> self.img_type,
         A_exp |-> self.A_exp, D_exp |-> self.D_exp,
         frame |-> i - 1, coef |-> c, val |-> est.prof_mean[i]]]

SummaryRow(self, c, est) ==
    [ID |-> self.img_name, type |-> self.img_type,
     A_exp |-> self.A_exp, D_exp |-> self.D_exp,
     coef |-> c, val |-> est.val, sd |-> est.sd]

\* the two coefficients cross_calc computes for a registration type
TypeCoefsSwapped(img_type) ==
    IF img_type = "A" THEN <<"c", "d">> ELSE IF img_type = "D" THEN <<"a", "b">> ELSE <<>>

TypeCoefs(img_type) ==
    IF img_type = "A" THEN <<"a", "b">> ELSE IF img_type = "D" THEN <<"c", "d">> ELSE <<>>

\* a cross_calc that appends to the raw table it already has
cross_calc_Appending(self) ==
    LET cs == TypeCoefs(self.img_type)
        e1 == CoefEstimate(self, cs[1])
        e2 == CoefEstimate(self, cs[2])
    IN  [self EXCEPT
           !.coef = [c \in {cs[1], cs[2]} |-> IF c = cs[1] THEN e1 ELSE e2],
           !.cross_raw_df = self.cross_raw_df \o RawRows(self, cs[1], e1) \o RawRows(self, cs[2], e2),
           !.cross_df = <<SummaryRow(self, cs[1], e1), SummaryRow(self, cs[2], e2)>>]

\* CrossReg.cross_calc
cross_calc(self) ==
    LET cs == TypeCoefs(self.img_type)
    IN  IF cs = <<>> THEN self
        ELSE LET e1 == CoefEstimate(self, cs[1])
                 e2 == CoefEstimate(self, cs[2])
             IN  [self EXCEPT
                    !.coef = [c \in (DOMAIN self.coef) \cup {cs[1], cs[2]} |->
                                 IF c = cs[1] THEN e1
                                 ELSE IF c = cs[2] THEN e2
                                 ELSE self.coef[c]],
                    !.cross_raw_df = RawRows(self, cs[1], e1) \o RawRows(self, cs[2], e2),
                    !.cross_df = <<SummaryRow(self, cs[1], e1), SummaryRow(self, cs[2], e2)>>]

\* ------------------------------------------------------------- pooled fits
\* ma.masked_where(label_mask, frame).compressed(): masked_where hides the
\* pixels where the condition is True, compressed() keeps the others
Compressed(label, label_num) == SetToSeq({p \in DOMAIN label : ~(label[p] = label_num)})

\* scipy.stats.linregress: raises ValueError on an empty sample and on a
\* sample of more than one point whose x values are all identical
Linregress(x, y) ==
    IF Len(x) = 0 THEN "ValueError"
    ELSE IF Len(x) > 1 /\ \A i \in DOMAIN x : x[i] = x[1] THEN "ValueError"
    ELSE "ok"

\* a channel choice that looks at the mode alone
FitChannelsAnyType(self, mode) ==
    IF mode = "a" THEN [ok |-> TRUE, pure |-> "AA_img", cross |-> "DA_img"]
    ELSE IF mode = "b" THEN [ok |-> TRUE, pure |-> "AA_img", cross |-> "DD_img"]
    ELSE IF mode = "c" THEN [ok |-> TRUE, pure |-> "DD_img", cross |-> "AA_img"]
    ELSE IF mode = "d" THEN [ok |-> TRUE, pure |-> "DD_img", cross |-> "DA_img"]
    ELSE [ok |-> FALSE, pure |-> "", cross |-> ""]

\* the (pure, cross) channel pair of cross_fit_px, by mode and type
FitChannels(self, mode) ==
    IF mode = "a" /\ self.img_type = "A" THEN [ok |-> TRUE, pure |-> "AA_img", cross |-> "DA_img"]
    ELSE IF mode = "b" /\ self.img_type = "A" THEN [ok |-> TRUE, pure |-> "AA_img", cross |-> "DD_img"]
    ELSE IF mode = "c" /\ self.img_type = "D" THEN [ok |-> TRUE, pure |-> "DD_img", cross |-> "AA_img"]
    ELSE IF mode = "d" /\ self.img_type = "D" THEN [ok |-> TRUE, pure |-> "DD_img", cross |-> "DA_img"]
    ELSE [ok |-> FALSE, pure |-> "", cross |-> ""]

ChannelOf(self, name) ==
    CASE name = "DD_img" -> self.DD_img
      [] name = "DA_img" -> self.DA_img
      [] name = "AD_img" -> self.AD_img
      [] name = "AA_img" -> self.AA_img

\* "if label_num in bad_rois" of the three pooled fits
IsBadNever(label_num, bad_rois) == FALSE

IsBad(label_num, bad_rois) == label_num \in bad_rois

\* the loop of cross_fit_px over label_num = from..max(label): the pixels
\* pooled, in the order in which they are appended
RECURSIVE CrossPool(_, _, _, _, _)
CrossPool(label, pure_frame, cross_frame, bad_rois, from) ==
    IF from > NumLabels(label) THEN <<>>
    ELSE LET kept == SelectSeq(Compressed(label, from),
                         LAMBDA p : ~(pure_frame[p] <= 0 \/ cross_frame[p] <= 0))
         IN  (IF IsBad(from, bad_rois) THEN <<>> ELSE kept)
                 \o CrossPool(label, pure_frame, cross_frame, bad_rois, from + 1)

\* CrossReg.cross_fit_px: what it hands to the regression and how it ends
cross_fit_px(self, frame_num, mode, bad_rois) ==
    LET ch == FitChannels(self, mode)
    IN  IF ~ch.ok
        THEN [kind |-> "error", err |-> "ValueError", stage |-> "mode",
              frame_num |-> frame_num, mode |-> mode, bad_rois |-> bad_rois,
              px |-> <<>>, x |-> <<>>, y |-> <<>>, pooled |-> FALSE]
        ELSE LET pure_frame == ChannelOf(self, ch.pure)[frame_num]
                 cross_frame == ChannelOf(self, ch.cross)[frame_num]
                 px == CrossPool(self.label, pure_frame, cross_frame, bad_rois, 1)
                 x == [i \in DOMAIN px |-> pure_frame[px[i]]]
                 y == [i \in DOMAIN px |-> cross_frame[px[i]]]
                 res == Linregress(x, y)
             IN  [kind |-> IF res = "ok" THEN "fit" ELSE "error",
                  err |-> IF res = "ok" THEN "" ELSE res,
                  stage |-> IF res = "ok" THEN "" ELSE "linregress",
                  frame_num |-> frame_num, mode |-> mode, bad_rois |-> bad_rois,
                  px |-> px, x |-> x, y |-> y, pooled |-> TRUE]

\* ---------------------------------------------------------------------- GReg
\* array elements carry their dtype: [k |-> "u16"] is a uint16, [k |-> "fin"]
\* a float64; a coefficient is a Python int [k |-> "int"] or a Python float
U16Val(v) == [k |-> "u16", n |-> U16(v), d |-> 1]

PyInt(i) == [k |-> "int", n |-> i, d |-> 1]

PyFloat(n, d) == Rat(n, d)

\* the value of an element as a float64
VF(v) == Rat(v.n, v.d)

\* scalar * element: a Python int keeps a uint16 array uint16 (and wraps),
\* a Python float makes it float64
VMul(c, v) ==
    IF c.k = "int" /\ v.k = "u16" THEN U16Val(c.n * v.n)
    ELSE Rat(c.n * v.n, c.d * v.d)

\* element - element: uint16 - uint16 stays uint16 and wraps
VSub(x, y) ==
    IF x.k = "u16" /\ y.k = "u16" THEN U16Val(x.n - y.n)
    ELSE Rat(x.n * y.d - y.n * x.d, x.d * y.d)

VLess(x, y) == x.n * y.d < y.n * x.d

\* np.minimum(x, y), in the common dtype
VMin(x, y) ==
    LET m == IF VLess(y, x) THEN y ELSE x
    IN  IF x.k = "u16" /\ y.k = "u16" THEN m ELSE VF(m)

\* Fc_frame = DA_frame - a*(AA_frame - c*DD_frame) - d*(DD_frame - b*AA_frame)
FcExpr(dd, da, aa, a, b, c, d) ==
    VSub(VSub(da, VMul(a, VSub(aa, VMul(c, dd)))), VMul(d, VSub(dd, VMul(b, aa))))

\* one pixel of Fc_frame after Fc_frame[Fc_frame < 0] = 0
FcPixel(dd, da, aa, a, b, c, d) ==
    LET fc == FcExpr(dd, da, aa, a, b, c, d)
    IN  IF fc.n < 0 THEN [fc EXCEPT !.n = 0, !.d = 1] ELSE fc

\* GReg.__Fc_img
Fc_img(dd_img, da_img, aa_img, a, b, c, d) ==
    [frame_num \in DOMAIN dd_img |->
        [p \in DOMAIN dd_img[frame_num] |->
            FcPixel(U16Val(dd_img[frame_num][p]), U16Val(da_img[frame_num][p]),
                    U16Val(aa_img[frame_num][p]), a, b, c, d)]]

\* one pixel of G_frame as np.asarray leaves it: the quotient under the mask
\* where the divisor is not 0; the dividend where the masked division is
\* undefined; the pre-bleach Fc outside the mask
GPixel(in_mask, fc_pre, fc_post, dd_pre, dd_post) ==
    LET num == VSub(fc_pre, fc_post)
        den == VSub(U16Val(dd_post), U16Val(dd_pre))
    IN  IF ~in_mask THEN VF(fc_pre)
        ELSE IF den.n = 0 THEN VF(num)
        ELSE Rat(num.n, num.d * den.n)

\* GReg.__G_img
G_img(Fc_pre_img, Fc_post_img, dd_pre_img, dd_post_img, mask) ==
    [frame_num \in DOMAIN Fc_pre_img |->
        [p \in DOMAIN mask |->
            GPixel(mask[p], Fc_pre_img[frame_num][p], Fc_post_img[frame_num][p],
                   dd_pre_img[frame_num][p], dd_post_img[frame_num][p])]]

\* __G_img raises IndexError when a frame of the pre-bleach stack has no
\* post-bleach frame of that index, or when ma.masked_where gets a
\* post-bleach frame whose shape is not that of the mask
G_img_raises(Fc_pre_img, Fc_post_img, mask) ==
    \E frame_num \in DOMAIN Fc_pre_img :
        \/ frame_num \notin DOMAIN Fc_post_img
        \/ DOMAIN Fc_post_img[frame_num] # DOMAIN mask

\* the channels GReg.__init__ hands to __Fc_img
FcArgsFromAD(DD, DA, AD, AA) == [dd_img |-> DD, da_img |-> AD, aa_img |-> AA]

FcArgs(DD, DA, AD, AA) == [dd_img |-> DD, da_img |-> DA, aa_img |-> AA]

\* GReg.__init__; mask is what the segmentation of the raw acceptor mean
\* image (proc_mask, opening, erosion, opening) returned
GRegNew(img_name, pre_img, post_img, coef_list, mask) ==
    LET DD == bc_p_m(pre_img[0])
        DA == bc_p_m(pre_img[1])
        AD == bc_p_m(pre_img[2])
        AA == bc_p_m(pre_img[3])
        DDp == bc_p_m(post_img[0])
        DAp == bc_p_m(post_img[1])
        ADp == bc_p_m(post_img[2])
        AAp == bc_p_m(post_img[3])
        label == measure_label(mask)
        ar == FcArgs(DD, DA, AD, AA)
        arp == FcArgs(DDp, DAp, ADp, AAp)
        pre == Fc_img(ar.dd_img, ar.da_img, ar.aa_img,
                      coef_list[1], coef_list[2], coef_list[3], coef_list[4])
        post == Fc_img(arp.dd_img, arp.da_img, arp.aa_img,
                       coef_list[1], coef_list[2], coef_list[3], coef_list[4])
    IN  IF G_img_raises(pre, post, mask)
        THEN [kind |-> "error", err |-> "IndexError",
              img_raw |-> pre_img, img_bleach |-> post_img]
        ELSE
        [kind |-> "GReg",
         img_name |-> img_name,
         img_raw |-> pre_img,
         img_bleach |-> post_img,
         a |-> coef_list[1], b |-> coef_list[2], c |-> coef_list[3], d |-> coef_list[4],
         DD_img |-> DD, DA_img |-> DA, AD_img |-> AD, AA_img |-> AA,
         DD_img_post |-> DDp, DA_img_post |-> DAp, AD_img_post |-> ADp, AA_img_post |-> AAp,
         DD_mean_img |-> MeanImg(pre_img[0]),
         AA_mean_img |-> MeanImg(pre_img[3]),
         seg_src |-> "img_raw",
         mask |-> mask,
         label |-> label,
         Fc_pre |-> pre,
         Fc_post |-> post,
         G_img |-> G_img(pre, post, DD, DDp, mask)]

\* np.mean(img, axis=(1,2), where=label_mask) of one frame
RegionMean(frame, label, label_num) ==
    FMeanSeq([i \in 1..Cardinality(RegionPixels(label, label_num)) |->
                 frame[SetToSeq(RegionPixels(label, label_num))[i]]])

FloatFrame(frame) == [p \in DOMAIN frame |-> VF(frame[p])]

IntFrame(frame) == [p \in DOMAIN frame |-> FInt(frame[p])]

\* the loop of G_fit_frames over label_num = from..max(label): the points
\* appended, one per frame for every region that is not in bad_rois
\* numpy broadcasting of two 1-D arrays of n and m elements: it fails unless
\* n = m or one of them is 1; element i (from 1) of the result takes element
\* BIdx(i, n) of the array of n elements
BroadcastFails(n, m) == n # m /\ n # 1 /\ m # 1

BIdx(i, n) == IF n = 1 THEN 0 ELSE i - 1

RECURSIVE GFramesPool(_, _, _)
GFramesPool(self, bad_rois, from) ==
    IF from > NumLabels(self.label) THEN <<>>
    ELSE LET n == Cardinality(DOMAIN self.DD_img)
             m == Cardinality(DOMAIN self.DD_img_post)
             pts == [i \in 1..(IF n = 1 THEN m ELSE n) |->
                        [label |-> from, frame |-> i - 1,
                         x |-> FSub(RegionMean(IntFrame(self.DD_img_post[BIdx(i, m)]), self.label, from),
                                    RegionMean(IntFrame(self.DD_img[BIdx(i, n)]), self.label, from)),
                         y |-> FSub(RegionMean(FloatFrame(self.Fc_pre[BIdx(i, n)]), self.label, from),
                                    RegionMean(FloatFrame(self.Fc_post[BIdx(i, m)]), self.label, from))]]
         IN  (IF IsBad(from, bad_rois) THEN <<>> ELSE pts) \o GFramesPool(self, bad_rois, from + 1)

\* GReg.G_fit_frames
G_fit_frames(self, bad_rois) ==
    LET raises == /\ NumLabels(self.label) >= 1
                  /\ BroadcastFails(Cardinality(DOMAIN self.DD_img),
                                    Cardinality(DOMAIN self.DD_img_post))
        pts == IF raises THEN <<>> ELSE GFramesPool(self, bad_rois, 1)
        x == [i \in DOMAIN pts |-> pts[i].x]
        y == [i \in DOMAIN pts |-> pts[i].y]
        res == IF raises THEN "ValueError" ELSE Linregress(x, y)
    IN  [kind |-> IF res = "ok" THEN "fit" ELSE "error",
         err |-> IF res = "ok" THEN "" ELSE res,
         op |-> "G_fit_frames", frame_num |-> 0, bad_rois |-> bad_rois,
         pts |-> [i \in DOMAIN pts |-> [label |-> pts[i].label, frame |-> pts[i].frame]],
         px |-> <<>>, x |-> x, y |-> y]

\* the loop of G_fit_px over label_num = from..max(label).  arr is
\* DD_delta_arr (as pixels): unbound at first, and every region that is not
\* in bad_rois binds it to the empty DD_delta_frame_arr joined with its own
\* pixels
RECURSIVE GPxPool(_, _, _, _, _, _)
GPxPool(label, dd_delta_frame, fc_delta_frame, bad_rois, from, arr) ==
    IF from > NumLabels(label) THEN arr
    ELSE LET kept == SelectSeq(Compressed(label, from),
                         LAMBDA p : ~(dd_delta_frame[p].n <= 0 \/ fc_delta_frame[p].n <= 0))
         IN  GPxPool(label, dd_delta_frame, fc_delta_frame, bad_rois, from + 1,
                     IF IsBad(from, bad_rois) THEN arr ELSE [bound |-> TRUE, px |-> <<>> \o kept])

\* GReg.G_fit_px
G_fit_px(self, frame_num, bad_rois) ==
    LET dd_delta_frame ==
            [p \in DOMAIN self.label |->
                VSub(U16Val(self.DD_img_post[frame_num][p]),
                     VMin(U16Val(self.DD_img[frame_num][p]), U16Val(self.DD_img_post[frame_num][p])))]
        fc_delta_frame ==
            [p \in DOMAIN self.label |->
                VSub(self.Fc_pre[frame_num][p],
                     VMin(self.Fc_post[frame_num][p], self.Fc_pre[frame_num][p]))]
        arr == GPxPool(self.label, dd_delta_frame, fc_delta_frame, bad_rois, 1,
                       [bound |-> FALSE, px |-> <<>>])
        x == [i \in DOMAIN arr.px |-> VF(dd_delta_frame[arr.px[i]])]
        y == [i \in DOMAIN arr.px |-> VF(fc_delta_frame[arr.px[i]])]
        res == IF arr.bound THEN Linregress(x, y) ELSE "NameError"
    IN  [kind |-> IF res = "ok" THEN "fit" ELSE "error",
         err |-> IF res = "ok" THEN "" ELSE res,
         op |-> "G_fit_px", frame_num |-> frame_num, bad_rois |-> bad_rois,
         pts |-> <<>>, px |-> arr.px, x |-> x, y |-> y]

\* ------------------------------------------------------------- CrossRegSet
\* a Python call with keyword arguments only: it binds when the keywords are
\* exactly the parameters (none of the parameters has a default)
BindsKeywords(params, kwargs) == DOMAIN kwargs = params

\* the parameters of CrossReg.__init__
CrossRegParams == {"img", "img_name", "exp_list", "img_type"}

\* CrossReg(**kwargs); mask is what the segmentation returns
CrossRegCall(kwargs, mask) ==
    IF BindsKeywords(CrossRegParams, kwargs)
    THEN CrossRegNew(kwargs.img, kwargs.img_name, kwargs.exp_list, kwargs.img_type, mask)
    ELSE [kind |-> "error", err |-> "TypeError"]

\* the keyword arguments CrossRegSet.__init__ passes for one dictionary item
CrossRegSetKwargs(data_path, item, data_type, trim_frame) ==
    [data_path |-> <<data_path, item.name, ".tif">>,
     data_name |-> item.name,
     exp_list |-> item.val,
     data_type |-> data_type,
     trim_frame |-> trim_frame]

\* one loop of CrossRegSet.__init__ over the items of a dictionary
CrossRegList(data_path, reg_dict, data_type, trim_frame, mask) ==
    [i \in 1..Len(reg_dict) |->
        CrossRegCall(CrossRegSetKwargs(data_path, reg_dict[i], data_type, trim_frame), mask)]

Raised(reg_list) == {i \in DOMAIN reg_list : reg_list[i].kind = "error"}

\* CrossRegSet.__init__: the first constructor that raises ends it
CrossRegSetNew(data_path, donor_reg_dict, acceptor_reg_dict, trim_frame, mask) ==
    LET donor_reg_list == CrossRegList(data_path, donor_reg_dict, "D", trim_frame, mask)
        acceptor_reg_list == CrossRegList(data_path, acceptor_reg_dict, "A", trim_frame, mask)
        raised == IF Raised(donor_reg_list) # {} THEN donor_reg_list[1]
                  ELSE IF Raised(acceptor_reg_list) # {} THEN acceptor_reg_list[1]
                  ELSE None
    IN  IF raised # None
        THEN [kind |-> "error", err |-> raised.err,
              donor_reg |-> donor_reg_dict, acceptor_reg |-> acceptor_reg_dict]
        ELSE [kind |-> "CrossRegSet",
              donor_reg |-> donor_reg_dict, acceptor_reg |-> acceptor_reg_dict,
              donor_reg_list |-> donor_reg_list, acceptor_reg_list |-> acceptor_reg_list,
              called |-> FALSE, cross_raw_df |-> <<>>, cross_df |-> <<>>]

\* pd.concat of the tables of a list of registrations, in list order
RECURSIVE ConcatTables(_, _)
ConcatTables(regs, field) ==
    IF regs = <<>> THEN <<>>
    ELSE (IF field = "cross_df" THEN regs[1].cross_df ELSE regs[1].cross_raw_df)
             \o ConcatTables(Tail(regs), field)

\* CrossRegSet.get_abcd: both tables start empty, every registration of
\* acceptor_reg_list + donor_reg_list runs cross_calc and appends its tables
get_abcd(self) ==
    LET acc == [i \in DOMAIN self.acceptor_reg_list |-> cross_calc(self.acceptor_reg_list[i])]
        don == [i \in DOMAIN self.donor_reg_list |-> cross_calc(self.donor_reg_list[i])]
    IN  [self EXCEPT !.acceptor_reg_list = acc,
                     !.donor_reg_list = don,
                     !.called = TRUE,
                     !.cross_raw_df = ConcatTables(acc \o don, "cross_raw_df"),
                     !.cross_df = ConcatTables(acc \o don, "cross_df")]

\* ----------------------------------------------------------------- GRegSet
\* the parameters of GReg.__init__
GRegParams == {"img_name", "pre_img", "post_img", "coef_list"}

\* the methods class GReg defines
GRegMethods ==
    {"__init__", "__Fc_img", "__G_img", "G_fit_frames", "G_fit_px", "mask_mean_overlay",
     "prof_plot", "pre_post_plot", "ch_pic", "G_plot_by_label", "G_report_pic"}

\* the keyword arguments GRegSet.__init__ passes for one dictionary item,
\* followed by the caller's **kwargs
GRegSetKwargs(data_path, item, kwargs) ==
    [k \in {"img_name", "raw_path", "bleach_path", "bleach_frame", "bleach_exp", "A_exp", "D_exp"}
            \cup DOMAIN kwargs |->
        CASE k = "img_name" -> item.name
          [] k = "raw_path" -> <<data_path, item.val[1], ".tif">>
          [] k = "bleach_path" -> <<data_path, item.val[2], ".tif">>
          [] k = "bleach_frame" -> item.val[3]
          [] k = "bleach_exp" -> item.val[4]
          [] k = "A_exp" -> item.val[5]
          [] k = "D_exp" -> item.val[6]
          [] OTHER -> kwargs[k]]

\* GReg(**kwargs); mask is what the segmentation returns
GRegCall(kwargs, mask) ==
    IF BindsKeywords(GRegParams, kwargs)
    THEN GRegNew(kwargs.img_name, kwargs.pre_img, kwargs.post_img, kwargs.coef_list, mask)
    ELSE [kind |-> "error", err |-> "TypeError"]

\* GRegSet.__init__
GRegSetNew(data_path, tandem_reg_dict, kwargs, mask) ==
    LET tandem_reg_list ==
            [i \in 1..Len(tandem_reg_dict) |->
                GRegCall(GRegSetKwargs(data_path, tandem_reg_dict[i], kwargs), mask)]
    IN  IF Raised(tandem_reg_list) # {}
        THEN [kind |-> "error", err |-> tandem_reg_list[1].err, op |-> "__init__",
              tandem_reg_dict |-> tandem_reg_dict]
        ELSE [kind |-> "GRegSet", err |-> "", op |-> "__init__",
              tandem_reg_dict |-> tandem_reg_dict,
              tandem_reg_list |-> tandem_reg_list, G_df |-> <<>>]

\* the GReg methods every set-level operation calls on each registration
GRegSetCalls(op) ==
    CASE op = "G_calc" -> <<"G_calc_frame">>
      [] op = "G_fit_pic" -> <<"Fc_DD_pic">>
      [] op = "G_calc_fit" -> <<"G_calc_fit">>
      [] op = "draw_pic" -> <<"Fc_plot", "pre_post_plot", "G_plot">>

GRegSetOps == {"G_calc", "G_fit_pic", "G_calc_fit", "draw_pic"}

\* a set-level operation of GRegSet: its loop over tandem_reg_list raises
\* AttributeError at the first call of a method GReg does not define
GRegSetOp(self, op) ==
    LET missing == {i \in DOMAIN GRegSetCalls(op) : GRegSetCalls(op)[i] \notin GRegMethods}
    IN  IF self.tandem_reg_list # <<>> /\ missing # {}
        THEN [self EXCEPT !.op = op, !.err = "AttributeError"]
        ELSE [self EXCEPT !.op = op, !.err = "",
                          !.G_df = IF op = "G_calc" THEN <<>> ELSE self.G_df]

\* ------------------------------------------------------------ specification
\* calibration stacks: DD, DA and AA are each one of CrossChanStacks
CrossImages ==
    {[ch \in ChanIdx |-> Stk(IF ch = 2 THEN << <<1, 4, 3, 2>>, <<0, 2, 6, 4>> >> ELSE sel[ch])] :
        sel \in [ChanIdx -> CrossChanStacks]}

\* acceptor-only calibration stacks with DA = 2*AA, AD = 0 and AA > 0
\* everywhere; the 1st percentile of the first is fractional, that of the
\* second an integer
RatioImages ==
    {[ch \in ChanIdx |-> Stk(CASE ch = 0 -> << <<9, 5, 1, 5>>, <<9, 7, 1, 3>> >>
                               [] ch = 1 -> << <<4, 12, 20, 12>>, <<4, 16, 20, 8>> >>
                               [] ch = 2 -> << <<0, 0, 0, 0>> >>
                               [] ch = 3 -> << <<2, 6, 10, 6>>, <<2, 8, 10, 4>> >>)],
     [ch \in ChanIdx |-> Stk(CASE ch = 0 -> << <<9, 5, 1, 5>>, <<9, 7, 1, 3>> >>
                               [] ch = 1 -> << <<4, 4, 12, 20>>, <<6, 6, 10, 18>> >>
                               [] ch = 2 -> << <<0, 0, 0, 0>> >>
                               [] ch = 3 -> << <<2, 2, 6, 10>>, <<3, 3, 5, 9>> >>)]}

\* pre- and post-bleach stacks
GPreImages ==
    {[ch \in ChanIdx |-> Stk(CASE ch = 0 -> dd [] ch = 1 -> da [] ch = 2 -> << <<1, 1, 1, 1>> >> [] ch = 3 -> << <<0, 5, 7, 4>> >>)] :
        dd \in { << <<0, 4, 8, 6>>, <<0, 4, 6, 9>> >>, << <<5, 3, 1, 7>> >> },
        da \in { << <<0, 9, 9, 5>>, <<0, 9, 7, 3>> >>, << <<3, 0, 6, 8>> >> }}

GPostImages ==
    {[ch \in ChanIdx |-> Stk(CASE ch = 0 -> dd [] ch = 1 -> << <<0, 3, 2, 4>> >> [] ch = 2 -> << <<2, 1, 1, 3>> >> [] ch = 3 -> << <<0, 2, 1, 1>> >>)] :
        dd \in { << <<0, 8, 8, 6>> >>, << <<1, 9, 5, 2>>, <<0, 5, 5, 9>> >> }}

CoefLists ==
    { <<PyInt(0), PyInt(0), PyInt(0), PyInt(0)>>,
      <<PyInt(1), PyInt(0), PyInt(1), PyInt(0)>>,
      <<PyFloat(0, 1), PyFloat(0, 1), PyFloat(0, 1), PyFloat(0, 1)>>,
      <<PyFloat(1, 2), PyFloat(1, 4), PyFloat(1, 2), PyFloat(1, 4)>>,
      <<PyFloat(1, 2), PyInt(0), PyInt(1), PyFloat(0, 1)>> }

BadRois == SUBSET {1, 2}

CrossInit ==
    /\ bc = None
    /\ cr \in {CrossRegNew(img, "reg", e, t, m) :
                  img \in CrossImages \cup RatioImages, e \in ExpLists, t \in ImgTypes, m \in Masks}
    /\ cfit = None
    /\ gr = None
    /\ gfit = None
    /\ cset = None
    /\ gset = None

GInit ==
    /\ bc = None
    /\ cr = None
    /\ cfit = None
    /\ gr \in {GRegNew("tandem", pre, post, cl, m) :
                  pre \in GPreImages, post \in GPostImages, cl \in CoefLists, m \in Masks}
    /\ gfit = None
    /\ cset = None
    /\ gset = None

CrossCalc ==
    /\ cr.kind = "CrossReg"
    /\ cr' = cross_calc(cr)
    /\ UNCHANGED <<bc, cfit, gr, gfit, cset, gset>>

CrossFitPx ==
    /\ cr.kind = "CrossReg"
    /\ \E frame_num \in Frames, mode \in Modes, bad_rois \in BadRois :
          cfit' = cross_fit_px(cr, frame_num, mode, bad_rois)
    /\ UNCHANGED <<bc, cr, gr, gfit, cset, gset>>

GFitFrames ==
    /\ gr.kind = "GReg"
    /\ \E bad_rois \in BadRois : gfit' = G_fit_frames(gr, bad_rois)
    /\ UNCHANGED <<bc, cr, cfit, gr, cset, gset>>

GFitPx ==
    /\ gr.kind = "GReg"
    /\ \E frame_num \in Frames, bad_rois \in BadRois : gfit' = G_fit_px(gr, frame_num, bad_rois)
    /\ UNCHANGED <<bc, cr, cfit, gr, cset, gset>>

\* ------------------------------------------------- background correction alone
BcInit ==
    /\ bc \in {[kind |-> "raw", x |-> [f \in Frames |-> Pat(ps[f + 1])], y |-> <<>>] :
                  ps \in [1..NFrames -> BcPatterns]}
    /\ cr = None
    /\ cfit = None
    /\ gr = None
    /\ gfit = None
    /\ cset = None
    /\ gset = None

BcApply ==
    /\ bc.kind = "raw"
    /\ bc' = [kind |-> "corrected", x |-> bc.x, y |-> bc_p_m(bc.x)]
    /\ UNCHANGED <<cr, cfit, gr, gfit, cset, gset>>

\* a stack of nf frames of np pixels that repeats a list of patterns
Shaped(pats, nf, np) ==
    [f \in 0..(nf - 1) |->
        [p \in 1..np |->
            LET pat == pats[(f % Len(pats)) + 1] IN pat[((p - 1) % Len(pat)) + 1]]]

\* post-bleach stacks whose shape is not that of the pre-bleach stack: one
\* frame more, one frame less, one pixel more, one pixel less
MismatchedShapes ==
    {<<NFrames + 1, NPix>>, <<NFrames - 1, NPix>>, <<NFrames, NPix + 1>>, <<NFrames, NPix - 1>>}

GPostMismatched ==
    {[ch \in ChanIdx |->
        Shaped(CASE ch = 0 -> << <<1, 9, 5, 2>>, <<0, 5, 5, 9>> >>
                 [] ch = 1 -> << <<0, 3, 2, 4>> >>
                 [] ch = 2 -> << <<2, 1, 1, 3>> >>
                 [] ch = 3 -> << <<0, 2, 1, 1>> >>, sh[1], sh[2])] : sh \in MismatchedShapes}

\* GReg.__init__ on a pre-bleach and a post-bleach stack of different shapes
GMismatchInit ==
    /\ bc = None
    /\ cr = None
    /\ cfit = None
    /\ gr \in {GRegNew("tandem", pre, post, cl, m) :
                  pre \in {[ch \in ChanIdx |-> Stk(CASE ch = 0 -> << <<0, 4, 8, 6>>, <<0, 4, 6, 9>> >>
                                                     [] ch = 1 -> << <<0, 9, 9, 5>>, <<0, 9, 7, 3>> >>
                                                     [] ch = 2 -> << <<1, 1, 1, 1>> >>
                                                     [] ch = 3 -> << <<0, 5, 7, 4>> >>)]},
                  post \in GPostMismatched,
                  cl \in {<<PyFloat(1, 2), PyFloat(1, 4), PyFloat(1, 2), PyFloat(1, 4)>>},
                  m \in Masks}
    /\ gfit = None
    /\ cset = None
    /\ gset = None

\* the dictionaries of a set: n items in insertion order
RegDict(tag, n, val) == [i \in 1..n |-> [name |-> <<tag, i>>, val |-> val]]

\* CrossRegSet(data_path, donor_reg_dict, acceptor_reg_dict)
CSetInit ==
    /\ bc = None
    /\ cr = None
    /\ cfit = None
    /\ gr = None
    /\ gfit = None
    /\ cset \in {CrossRegSetNew("data/", RegDict("D", nd, e), RegDict("A", na, e), -1, m) :
                    nd \in 0..MaxRegs, na \in 0..MaxRegs, e \in ExpLists, m \in Masks}
    /\ gset = None

GetAbcd ==
    /\ cset.kind = "CrossRegSet"
    /\ cset' = get_abcd(cset)
    /\ UNCHANGED <<bc, cr, cfit, gr, gfit, gset>>

\* the caller's **kwargs of GRegSet
GSetKwargs ==
    {<<>>,
     [coef_list |-> <<PyInt(0), PyInt(0), PyInt(0), PyInt(0)>>]}

\* GRegSet(data_path, tandem_reg_dict, **kwargs)
GSetInit ==
    /\ bc = None
    /\ cr = None
    /\ cfit = None
    /\ gr = None
    /\ gfit = None
    /\ cset = None
    /\ gset \in {GRegSetNew("data/", RegDict("T", n, <<"raw", "bleach", 5, 30, 20, 10>>), kw, m) :
                    n \in 0..MaxRegs, kw \in GSetKwargs, m \in Masks}

GSetRun ==
    /\ gset.kind = "GRegSet"
    /\ \E op \in GRegSetOps : gset' = GRegSetOp(gset, op)
    /\ UNCHANGED <<bc, cr, cfit, gr, gfit, cset>>

Init == BcInit \/ CrossInit \/ GInit \/ GMismatchInit \/ CSetInit \/ GSetInit

Next == BcApply \/ CrossCalc \/ CrossFitPx \/ GFitFrames \/ GFitPx \/ GetAbcd \/ GSetRun

Spec == Init /\ [][Next]_vars

\* ---------------------------------------------------------------- properties
IsG == gr.kind = "GReg"

IsCross == cr.kind = "CrossReg"

\* the value of a coefficient as an exact rational
CoefVal(c) == Rat(c.n, c.d)

\* max(0, DA - a*(AA - c*DD) - d*(DD - b*AA)) in exact signed arithmetic
ExactFc(dd, da, aa, a, b, c, d) ==
    LET t1 == FMul(CoefVal(a), FSub(FInt(aa), FMul(CoefVal(c), FInt(dd))))
        t2 == FMul(CoefVal(d), FSub(FInt(dd), FMul(CoefVal(b), FInt(aa))))
        fc == FSub(FSub(FInt(da), t1), t2)
    IN  IF fc.n < 0 THEN FInt(0) ELSE fc

\* C1: for every frame, pixel and choice of coefficients (Python ints or
\* floats), Fc_pre and Fc_post equal max(0, DA - a*(AA - c*DD) - d*(DD - b*AA))
\* in exact signed arithmetic on the background-corrected channels of the
\* pre-bleach and of the post-bleach stack, with the same coefficients; no
\* intermediate term wraps around in uint16.
C1_FcExactSigned ==
    IsG =>
        \A f \in DOMAIN gr.Fc_pre : \A p \in Pixels :
            /\ VF(gr.Fc_pre[f][p]) =
                   ExactFc(gr.DD_img[f][p], gr.DA_img[f][p], gr.AA_img[f][p],
                           gr.a, gr.b, gr.c, gr.d)
            /\ VF(gr.Fc_post[f][p]) =
                   ExactFc(gr.DD_img_post[f][p], gr.DA_img_post[f][p], gr.AA_img_post[f][p],
                           gr.a, gr.b, gr.c, gr.d)

AllCoefsZero == gr.a.n = 0 /\ gr.b.n = 0 /\ gr.c.n = 0 /\ gr.d.n = 0

\* other contents for the AD channel of both stacks
OtherAD == {Stk(<< <<0, 0, 0, 0>> >>), Stk(<< <<9, 1, 7, 3>>, <<4, 8, 2, 6>> >>)}

\* C2: when a = b = c = d = 0, Fc_pre is the background-corrected pre-bleach
\* DA channel and Fc_post the background-corrected post-bleach DA channel,
\* at every frame and pixel; and the AD channel never influences Fc: the
\* same registration with other AD data has the same Fc_pre and Fc_post.
C2_ZeroCoefsFcIsDA ==
    IsG =>
        /\ AllCoefsZero =>
              \A f \in Frames : \A p \in Pixels :
                  /\ VF(gr.Fc_pre[f][p]) = FInt(bc_p_m(gr.img_raw[1])[f][p])
                  /\ VF(gr.Fc_post[f][p]) = FInt(bc_p_m(gr.img_bleach[1])[f][p])
        /\ \A ad \in OtherAD :
              LET other == GRegNew(gr.img_name, [gr.img_raw EXCEPT ![2] = ad],
                                   [gr.img_bleach EXCEPT ![2] = ad],
                                   <<gr.a, gr.b, gr.c, gr.d>>, gr.mask)
              IN  other.Fc_pre = gr.Fc_pre /\ other.Fc_post = gr.Fc_post

C2_Witness ==
    /\ IsG
    /\ AllCoefsZero
    /\ \E f \in Frames : \E p \in Pixels :
          /\ gr.Fc_pre[f][p].n > 0
          /\ gr.Fc_post[f][p].n > 0
          /\ gr.Fc_pre[f][p].n # gr.AD_img[f][p]
          /\ gr.Fc_pre[f][p].n # gr.AA_img[f][p]

\* C3: for every frame and every pixel inside the cell mask, the G image
\* value is (Fc_pre - Fc_post) / (DD_post - DD_pre) with the signed
\* difference of the background-corrected donor channels as denominator
\* (negative where DD_post < DD_pre), and where DD_post = DD_pre no finite
\* G value is reported.
C3_GSignedQuotient ==
    IsG =>
        \A f \in DOMAIN gr.G_img : \A p \in Pixels :
            gr.mask[p] =>
                LET num == FSub(VF(gr.Fc_pre[f][p]), VF(gr.Fc_post[f][p]))
                    den == gr.DD_img_post[f][p] - gr.DD_img[f][p]
                IN  IF den = 0 THEN ~IsFin(gr.G_img[f][p])
                    ELSE gr.G_img[f][p] = Rat(num.n, num.d * den)

\* the referent of C4 for one frame: out is max(0, v - p) truncated
CorrectedFrame(raw, out) ==
    LET p100 == Percentile(raw)
    IN  \A q \in DOMAIN raw :
            /\ out[q] \in 0..(U16Mod - 1)
            /\ out[q] <= raw[q]
            /\ (PctFull * raw[q] <= p100) => out[q] = 0
            /\ PctFull * out[q] <= Max2(0, PctFull * raw[q] - p100)
            /\ Max2(0, PctFull * raw[q] - p100) < PctFull * (out[q] + 1)
            /\ \A r \in DOMAIN raw : raw[q] <= raw[r] => out[q] <= out[r]

CorrectedStack(raw, out) ==
    /\ DOMAIN out = DOMAIN raw
    /\ \A f \in DOMAIN raw :
          /\ CorrectedFrame(raw[f], out[f])
          /\ \A g \in DOMAIN raw : raw[g] = raw[f] => out[g] = out[f]
          /\ out[f] = bc_p_m([h \in {0} |-> raw[f]])[0]

\* C4: background correction maps every pixel v of a frame with 1st
\* percentile p to max(0, v - p) truncated to an integer in 0..65535: no
\* corrected pixel is negative or exceeds its raw value, every pixel with
\* v <= p becomes 0, the order of the pixel values of a frame is preserved,
\* and the result depends on that frame alone; this holds for a stack
\* corrected on its own, for the 4 channels of a CrossReg and for the 4
\* channels of both stacks of a GReg.
C4_BackgroundCorrection ==
    /\ bc.kind = "corrected" => CorrectedStack(bc.x, bc.y)
    /\ IsCross =>
          /\ CorrectedStack(cr.img_raw[0], cr.DD_img)
          /\ CorrectedStack(cr.img_raw[1], cr.DA_img)
          /\ CorrectedStack(cr.img_raw[2], cr.AD_img)
          /\ CorrectedStack(cr.img_raw[3], cr.AA_img)
    /\ IsG =>
          /\ CorrectedStack(gr.img_raw[0], gr.DD_img)
          /\ CorrectedStack(gr.img_raw[1], gr.DA_img)
          /\ CorrectedStack(gr.img_raw[2], gr.AD_img)
          /\ CorrectedStack(gr.img_raw[3], gr.AA_img)
          /\ CorrectedStack(gr.img_bleach[0], gr.DD_img_post)
          /\ CorrectedStack(gr.img_bleach[1], gr.DA_img_post)
          /\ CorrectedStack(gr.img_bleach[2], gr.AD_img_post)
          /\ CorrectedStack(gr.img_bleach[3], gr.AA_img_post)

C4_Witness ==
    /\ bc.kind = "corrected"
    /\ \E f, g \in Frames :
          /\ Percentile(bc.x[f]) # Percentile(bc.x[g])
          /\ Percentile(bc.x[f]) % PctFull # 0
          /\ \E q, r \in Pixels :
                /\ bc.x[f][q] > 0 /\ bc.y[f][q] = 0
                /\ bc.y[f][r] > 0 /\ bc.y[f][r] < bc.x[f][r]

\* the sum of g over the set S, and the mean of g over S
RECURSIVE SumOver(_, _)
SumOver(S, g) ==
    IF S = {} THEN FInt(0)
    ELSE LET e == CHOOSE q \in S : TRUE
         IN  FAdd(g[e], SumOver(S \ {e}, g))

MeanOver(S, g) == IF S = {} THEN NaN ELSE FDivInt(SumOver(S, g), Cardinality(S))

\* the average over the regions of the region mean of num/den in frame f
RegionAverage(num, den, label, f) ==
    LET ratio == [p \in Pixels |-> UDiv(num[f][p], den[f][p])]
        means == [r \in 1..NumLabels(label) |-> MeanOver(RegionPixels(label, r), ratio)]
    IN  MeanOver(1..NumLabels(label), means)

\* est is the estimate of the coefficient num/den: profile, mean and sd
EstimateOf(est, num, den, label) ==
    LET prof == [i \in 1..NFrames |-> RegionAverage(num, den, label, i - 1)]
        m == MeanOver(1..NFrames, prof)
        sq == [i \in 1..NFrames |-> FMul(FSub(prof[i], m), FSub(prof[i], m))]
    IN  /\ est.prof_mean = prof
        /\ est.val = m
        /\ est.sd.k = "sqrt"
        /\ est.sd.of = IF \A i \in 1..NFrames : IsFin(prof[i])
                       THEN MeanOver(1..NFrames, sq) ELSE NaN

Calculated == IsCross /\ cr.cross_df # <<>>

\* C5: cross_calc on an 'A' registration sets a_prof_mean[frame] to the
\* unweighted average over the labeled regions of the region mean of DA/AA
\* in that frame and b_prof_mean likewise from AD/AA; a and b are the means
\* of those profiles over the frames and a_sd, b_sd their standard
\* deviations.  On a 'D' registration the same holds for c from AA/DD and d
\* from DA/DD.  All ratios use the background-corrected channels.
C5_CrossCalcEstimates ==
    Calculated =>
        LET DD == bc_p_m(cr.img_raw[0])
            DA == bc_p_m(cr.img_raw[1])
            AD == bc_p_m(cr.img_raw[2])
            AA == bc_p_m(cr.img_raw[3])
        IN  /\ cr.img_type = "A" =>
                  /\ EstimateOf(cr.coef["a"], DA, AA, cr.label)
                  /\ EstimateOf(cr.coef["b"], AD, AA, cr.label)
            /\ cr.img_type = "D" =>
                  /\ EstimateOf(cr.coef["c"], AA, DD, cr.label)
                  /\ EstimateOf(cr.coef["d"], DA, DD, cr.label)

C5_Witness ==
    /\ Calculated
    /\ cr.img_type = "A"
    /\ NumLabels(cr.label) = 2
    /\ Cardinality(RegionPixels(cr.label, 1)) # Cardinality(RegionPixels(cr.label, 2))
    /\ IsFin(cr.coef["a"].val) /\ cr.coef["a"].val.n > 0
    /\ IsFin(cr.coef["b"].val) /\ cr.coef["b"].val.n > 0
    /\ IsFin(cr.coef["b"].sd.of) /\ cr.coef["b"].sd.of.n > 0
    /\ cr.coef["a"].val # cr.coef["b"].val

\* C6: after cross_calc on a registration with F frames, cross_raw_df holds
\* exactly 2*F rows, one per (coefficient, frame) with the frames 0..F-1 for
\* each of the two coefficients, and cross_df exactly two summary rows
\* (value, sd), one per coefficient; an 'A' registration yields only a and
\* b, a 'D' registration only c and d, and every row carries the
\* registration's ID, type, A_exp and D_exp.
C6_CrossTables ==
    Calculated =>
        LET cs == IF cr.img_type = "A" THEN <<"a", "b">> ELSE <<"c", "d">>
            Meta(row) ==
                /\ row.ID = cr.img_name
                /\ row.type = cr.img_type
                /\ row.A_exp = cr.A_exp
                /\ row.D_exp = cr.D_exp
        IN  /\ Len(cr.cross_raw_df) = 2 * NFrames
            /\ \A j \in 1..2 : \A i \in Frames :
                  LET row == cr.cross_raw_df[(j - 1) * NFrames + i + 1]
                  IN  /\ row.coef = cs[j]
                      /\ row.frame = i
                      /\ row.val = cr.coef[cs[j]].prof_mean[i + 1]
                      /\ Meta(row)
            /\ Len(cr.cross_df) = 2
            /\ \A j \in 1..2 :
                  /\ cr.cross_df[j].coef = cs[j]
                  /\ cr.cross_df[j].val = cr.coef[cs[j]].val
                  /\ cr.cross_df[j].sd = cr.coef[cs[j]].sd
                  /\ Meta(cr.cross_df[j])

C6_Witness ==
    /\ Calculated
    /\ cr.img_type = "D"
    /\ NumLabels(cr.label) >= 1
    /\ cr.cross_raw_df[NFrames + 1].coef = "d"
    /\ cr.A_exp # cr.D_exp

\* the coefficients that belong to a registration type
OwnCoefs(img_type) == IF img_type = "A" THEN {"a", "b"} ELSE {"c", "d"}

\* C7: cross_fit_px with a mode that is inconsistent with the registration
\* type (a or b on 'D', c or d on 'A', or a mode outside a..d) raises before
\* any pixel is pooled or any regression is run and yields no fit; and no
\* crosstalk operation produces a value for a coefficient that does not
\* belong to the registration's type.
C7_InconsistentModeFails ==
    IsCross =>
        /\ (cfit.kind # "none" /\ cfit.mode \notin OwnCoefs(cr.img_type)) =>
              /\ cfit.kind = "error"
              /\ cfit.err = "ValueError"
              /\ cfit.stage = "mode"
              /\ ~cfit.pooled
              /\ cfit.px = <<>> /\ cfit.x = <<>> /\ cfit.y = <<>>
        /\ cfit.kind = "fit" => cfit.mode \in OwnCoefs(cr.img_type)
        /\ DOMAIN cr.coef \subseteq OwnCoefs(cr.img_type)
        /\ \A i \in DOMAIN cr.cross_df : cr.cross_df[i].coef \in OwnCoefs(cr.img_type)
        /\ \A i \in DOMAIN cr.cross_raw_df : cr.cross_raw_df[i].coef \in OwnCoefs(cr.img_type)

C7_Witness ==
    /\ Calculated
    /\ cr.img_type = "D"
    /\ cfit.kind = "error"
    /\ cfit.mode = "a"
    /\ NumLabels(cr.label) >= 1
    /\ \E p \in Pixels :
          cr.label[p] = 0 /\ cr.AA_img[cfit.frame_num][p] > 0 /\ cr.DA_img[cfit.frame_num][p] > 0

\* the mask with the regions of a set removed
WithoutRegions(mask, label, rois) == [p \in DOMAIN mask |-> mask[p] /\ label[p] \notin rois]

\* the point of region r in frame f: delta DD is the region mean of DD_post
\* minus that of DD_pre, delta Fc the region mean of Fc_pre minus that of
\* Fc_post
FramePoint(r, f) ==
    LET S == RegionPixels(gr.label, r)
    IN  [x |-> FSub(MeanOver(S, IntFrame(gr.DD_img_post[f])), MeanOver(S, IntFrame(gr.DD_img[f]))),
         y |-> FSub(MeanOver(S, FloatFrame(gr.Fc_pre[f])), MeanOver(S, FloatFrame(gr.Fc_post[f])))]

\* C8: the sample of G_fit_frames consists of exactly one (delta DD, delta
\* Fc) point per frame for each labeled region that is not in bad_rois; a
\* region in bad_rois contributes no point, so the sample is the one
\* obtained when that region is absent from the label map.
C8_FramesSample ==
    (IsG /\ DOMAIN gr.DD_img_post = DOMAIN gr.DD_img
         /\ gfit.kind # "none" /\ gfit.op = "G_fit_frames") =>
        LET good == SetToSeq((1..NumLabels(gr.label)) \ gfit.bad_rois)
            absent == WithoutRegions(gr.mask, gr.label, gfit.bad_rois)
            other == G_fit_frames([gr EXCEPT !.mask = absent, !.label = measure_label(absent)], {})
        IN  /\ Len(gfit.x) = Len(good) * NFrames
            /\ Len(gfit.y) = Len(good) * NFrames
            /\ \A j \in DOMAIN good : \A f \in Frames :
                  /\ gfit.pts[(j - 1) * NFrames + f + 1] = [label |-> good[j], frame |-> f]
                  /\ gfit.x[(j - 1) * NFrames + f + 1] = FramePoint(good[j], f).x
                  /\ gfit.y[(j - 1) * NFrames + f + 1] = FramePoint(good[j], f).y
            /\ \A i \in DOMAIN gfit.pts : gfit.pts[i].label \notin gfit.bad_rois
            /\ other.x = gfit.x
            /\ other.y = gfit.y
            /\ other.kind = gfit.kind

C8_Witness ==
    /\ IsG
    /\ gfit.kind = "fit"
    /\ gfit.op = "G_fit_frames"
    /\ NumLabels(gr.label) = 2
    /\ gfit.bad_rois = {1}
    /\ Len(gfit.x) = NFrames
    /\ FramePoint(1, 0) # FramePoint(2, 0)

\* the multiset of the pixels of a sample equals the set S, each once
ExactlyOnce(px, S) ==
    /\ \A i \in DOMAIN px : px[i] \in S
    /\ \A p \in S : Cardinality({i \in DOMAIN px : px[i] = p}) = 1

\* C9: the sample of cross_fit_px for the chosen frame consists of exactly
\* the pixels inside a labeled region that is not in bad_rois at which both
\* the pure-channel and the cross-channel value are > 0; pixels outside
\* every region and pixels of a region in bad_rois never enter it, and each
\* qualifying pixel enters it exactly once.
C9_CrossPxSample ==
    (IsCross /\ cfit.kind # "none" /\ cfit.pooled) =>
        LET ch == FitChannels(cr, cfit.mode)
            pure_frame == ChannelOf(cr, ch.pure)[cfit.frame_num]
            cross_frame == ChannelOf(cr, ch.cross)[cfit.frame_num]
            qualifying == {p \in Pixels :
                              /\ cr.label[p] >= 1
                              /\ cr.label[p] \notin cfit.bad_rois
                              /\ pure_frame[p] > 0
                              /\ cross_frame[p] > 0}
        IN  ExactlyOnce(cfit.px, qualifying)

\* C10: the sample of G_fit_px for the chosen frame contains the per-pixel
\* (delta DD, delta Fc) pairs of every labeled region that is not in
\* bad_rois, restricted to the pixels inside the region where delta DD =
\* DD_post - DD_pre and delta Fc = Fc_pre - Fc_post are both > 0; pixels of
\* regions in bad_rois and pixels outside all regions are absent.
C10_GPxSample ==
    (IsG /\ gfit.kind # "none" /\ gfit.op = "G_fit_px" /\ gfit.err # "NameError") =>
        LET f == gfit.frame_num
            dDD(p) == gr.DD_img_post[f][p] - gr.DD_img[f][p]
            dFc(p) == FSub(VF(gr.Fc_pre[f][p]), VF(gr.Fc_post[f][p]))
            qualifying == {p \in Pixels :
                              /\ gr.label[p] >= 1
                              /\ gr.label[p] \notin gfit.bad_rois
                              /\ dDD(p) > 0
                              /\ FGtZero(dFc(p))}
        IN  /\ ExactlyOnce(gfit.px, qualifying)
            /\ \A i \in DOMAIN gfit.px :
                  /\ gfit.x[i] = FInt(dDD(gfit.px[i]))
                  /\ gfit.y[i] = dFc(gfit.px[i])

\* the labels of a label map, and the sample of a pooled fit when r is its
\* only region that is not in bad_rois
AllLabels(label) == 1..NumLabels(label)

CrossAlone(r) == cross_fit_px(cr, cfit.frame_num, cfit.mode, AllLabels(cr.label) \ {r})

GPxAlone(r) == G_fit_px(gr, gfit.frame_num, AllLabels(gr.label) \ {r})

AllFinite(s) == \A i \in DOMAIN s : IsFin(s[i])

\* C11: in each of the three pooled fits, when bad_rois covers every label,
\* when the label map has no region or when filtering leaves no sample, the
\* operation ends in an error and reports no fit; the sample holds no
\* not-a-number value; and a region that contributes no sample after
\* filtering adds nothing: the pooled sample is the one obtained without
\* that region.
C11_DegenerateRegions ==
    /\ (IsCross /\ cfit.kind # "none" /\ cfit.pooled) =>
          LET good == AllLabels(cr.label) \ cfit.bad_rois
          IN  /\ (good = {} \/ cfit.px = <<>>) => (cfit.kind = "error" /\ cfit.x = <<>>)
              /\ \A r \in good :
                    CrossAlone(r).px = <<>> =>
                        LET other == cross_fit_px(cr, cfit.frame_num, cfit.mode,
                                                  cfit.bad_rois \cup {r})
                        IN  other.x = cfit.x /\ other.y = cfit.y /\ other.kind = cfit.kind
    /\ (IsG /\ gfit.kind # "none" /\ gfit.op = "G_fit_frames") =>
          LET good == AllLabels(gr.label) \ gfit.bad_rois
          IN  /\ (good = {} \/ gfit.x = <<>>) => gfit.kind = "error"
              /\ AllFinite(gfit.x) /\ AllFinite(gfit.y)
    /\ (IsG /\ gfit.kind # "none" /\ gfit.op = "G_fit_px") =>
          LET good == AllLabels(gr.label) \ gfit.bad_rois
          IN  /\ (good = {} \/ gfit.x = <<>>) => gfit.kind = "error"
              /\ AllFinite(gfit.x) /\ AllFinite(gfit.y)
              /\ \A r \in good :
                    GPxAlone(r).px = <<>> =>
                        LET other == G_fit_px(gr, gfit.frame_num, gfit.bad_rois \cup {r})
                        IN  other.x = gfit.x /\ other.y = gfit.y /\ other.kind = gfit.kind

IsSetInput == cset.kind # "none"

\* the ID column of a table
IDs(df) == [i \in DOMAIN df |-> df[i].ID]

\* every name of a dictionary twice, in dictionary order
TwoRowsEach(reg_dict) == [i \in 1..(2 * Len(reg_dict)) |-> reg_dict[(i + 1) \div 2].name]

\* C12: a CrossRegSet built from a donor dictionary of n_D and an acceptor
\* dictionary of n_A entries is constructed, and get_abcd completes and
\* returns a summary table of exactly 2*(n_A + n_D) rows, the two rows of a
\* registration adjacent, the acceptor registrations first and then the
\* donor registrations, each in dictionary order; a second get_abcd returns
\* the same table.
C12_GetAbcdTable ==
    IsSetInput =>
        /\ cset.kind = "CrossRegSet"
        /\ Len(cset.acceptor_reg_list) = Len(cset.acceptor_reg)
        /\ Len(cset.donor_reg_list) = Len(cset.donor_reg)
        /\ cset.called =>
              /\ Len(cset.cross_df) = 2 * (Len(cset.acceptor_reg) + Len(cset.donor_reg))
              /\ IDs(cset.cross_df) = TwoRowsEach(cset.acceptor_reg) \o TwoRowsEach(cset.donor_reg)
              /\ get_abcd(cset).cross_df = cset.cross_df

\* the registrations of a dictionary whose construction raises
FailingItems(reg_dict, data_type) ==
    Raised(CrossRegList("data/", reg_dict, data_type, -1, [p \in Pixels |-> FALSE]))

\* C13: when the construction (or the cross_calc) of a registration of a
\* set fails, the set is not aborted: the set object exists, it records
\* which registration failed, and its table holds the rows of every
\* registration that did not fail.
C13_FailureDoesNotAbort ==
    IsSetInput =>
        LET bad_D == FailingItems(cset.donor_reg, "D")
            bad_A == FailingItems(cset.acceptor_reg, "A")
        IN  (bad_D # {} \/ bad_A # {}) =>
                /\ cset.kind = "CrossRegSet"
                /\ "failed" \in DOMAIN cset
                /\ cset.failed = [donor |-> bad_D, acceptor |-> bad_A]
                /\ cset.called =>
                      \A i \in (DOMAIN cset.donor_reg) \ bad_D :
                          \E j \in DOMAIN cset.cross_df :
                              cset.cross_df[j].ID = cset.donor_reg[i].name

\* two stacks have the same frame count and the same spatial dimensions
SameShape(x, y) ==
    /\ DOMAIN x = DOMAIN y
    /\ \A f \in DOMAIN x : DOMAIN x[f] = DOMAIN y[f]

\* C14: constructing a GReg from a pre-bleach and a post-bleach stack that
\* differ in frame count or in spatial dimensions fails: every GReg object
\* (with Fc_pre, Fc_post and G_img) comes from two stacks of the same shape,
\* and no frame of a longer stack is left out of its images.
C14_MismatchedStacksFail ==
    IsG =>
        /\ \A ch \in ChanIdx : SameShape(gr.img_raw[ch], gr.img_bleach[ch])
        /\ DOMAIN gr.G_img = DOMAIN gr.Fc_post
        /\ DOMAIN gr.G_img = DOMAIN gr.Fc_pre

\* the raw stack has DA = k*AA, AD = 0 and AA > 0 at every pixel of every frame
Proportional(img, k) ==
    \A f \in DOMAIN img[3] : \A p \in DOMAIN img[3][f] :
        /\ img[3][f][p] > 0
        /\ img[1][f][p] = k * img[3][f][p]
        /\ img[2][f][p] = 0

RatioRange == 1..3

\* C15: on an acceptor-only stack with DA = k*AA and AD = 0 at every pixel
\* of every frame (AA > 0) and at least one segmented region, cross_calc
\* yields a = k, a_sd = 0, b = 0 and b_sd = 0.
C15_ProportionalStack ==
    (Calculated /\ cr.img_type = "A" /\ NumLabels(cr.label) >= 1) =>
        \A k \in RatioRange :
            Proportional(cr.img_raw, k) =>
                /\ cr.coef["a"].val = FInt(k)
                /\ cr.coef["a"].sd.of = FInt(0)
                /\ cr.coef["b"].val = FInt(0)
                /\ cr.coef["b"].sd.of = FInt(0)

\* C16: in every registration object the image that is segmented into the
\* mask and the label map is derived from background-corrected channel data
\* (for a CrossReg the mean of the corrected AA or DD channel, for a GReg
\* the mean of the corrected pre-bleach AA channel), and Fc_pre, Fc_post
\* and G_img are computed from the corrected channels and the mask.
C16_StageOrder ==
    /\ IsCross =>
          /\ cr.seg_src = "AA_img" => cr.AA_mean_img = MeanImg(bc_p_m(cr.img_raw[3]))
          /\ cr.seg_src = "DD_img" => cr.DD_mean_img = MeanImg(bc_p_m(cr.img_raw[0]))
          /\ cr.label = measure_label(cr.mask)
    /\ IsG =>
          /\ gr.AA_mean_img = MeanImg(bc_p_m(gr.img_raw[3]))
          /\ gr.label = measure_label(gr.mask)
          /\ gr.Fc_pre = Fc_img(bc_p_m(gr.img_raw[0]), bc_p_m(gr.img_raw[1]), bc_p_m(gr.img_raw[3]),
                                gr.a, gr.b, gr.c, gr.d)
          /\ gr.Fc_post = Fc_img(bc_p_m(gr.img_bleach[0]), bc_p_m(gr.img_bleach[1]),
                                 bc_p_m(gr.img_bleach[3]), gr.a, gr.b, gr.c, gr.d)
          /\ gr.G_img = G_img(gr.Fc_pre, gr.Fc_post, gr.DD_img, gr.DD_img_post, gr.mask)

\* the estimates of a registration: coefficients, sd values and both tables
Estimates(reg) == <<reg.coef, reg.cross_raw_df, reg.cross_df>>

HasEstimates(reg) == reg.kind = "CrossReg" /\ reg.cross_df # <<>>

\* C17: once cross_calc has produced the estimates of a registration, no
\* later operation (cross_fit_px with any arguments, one that raises
\* included, a repeated cross_calc, get_abcd of its set) changes them; and
\* the diagnostic fits cross_fit_px, G_fit_frames and G_fit_px leave the
\* registration (channel images, mask, label map, Fc and G images) as it
\* was.
C17_EstimatesImmutable ==
    [][/\ HasEstimates(cr) => (HasEstimates(cr') /\ Estimates(cr') = Estimates(cr))
       /\ cfit' # cfit => cr' = cr
       /\ gfit' # gfit => gr' = gr
       /\ (cset.kind = "CrossRegSet" /\ cset'.kind = "CrossRegSet") =>
             /\ \A i \in DOMAIN cset.acceptor_reg_list :
                   HasEstimates(cset.acceptor_reg_list[i]) =>
                       Estimates(cset'.acceptor_reg_list[i]) = Estimates(cset.acceptor_reg_list[i])
             /\ \A i \in DOMAIN cset.donor_reg_list :
                   HasEstimates(cset.donor_reg_list[i]) =>
                       Estimates(cset'.donor_reg_list[i]) = Estimates(cset.donor_reg_list[i])
             /\ cset.called => cset'.cross_df = cset.cross_df]_vars

C17_Witness ==
    /\ HasEstimates(cr)
    /\ cr.img_type = "A"
    /\ IsFin(cr.coef["a"].val)
    /\ cfit.kind = "error"
    /\ cfit.stage = "linregress"
    /\ cr = cross_calc(cr)

\* the (pure, cross) channel pair the definition of each coefficient requires
DefinedPair(self, mode) ==
    CASE mode = "a" -> [pure |-> self.AA_img, cross |-> self.DA_img]
      [] mode = "b" -> [pure |-> self.AA_img, cross |-> self.AD_img]
      [] mode = "c" -> [pure |-> self.DD_img, cross |-> self.AA_img]
      [] mode = "d" -> [pure |-> self.DD_img, cross |-> self.DA_img]

\* C18: in cross_fit_px the regressed pair is determined by the mode as the
\* coefficient definitions require: mode a fits DA against AA, mode b AD
\* against AA, mode c AA against DD and mode d DA against DD, each on the
\* background-corrected frame frame_num.
C18_ModeChannels ==
    (IsCross /\ cfit.kind # "none" /\ cfit.pooled) =>
        LET pair == DefinedPair(cr, cfit.mode)
        IN  \A i \in DOMAIN cfit.px :
                /\ cfit.x[i] = pair.pure[cfit.frame_num][cfit.px[i]]
                /\ cfit.y[i] = pair.cross[cfit.frame_num][cfit.px[i]]

\* an estimate holds finite numbers only
FiniteEstimate(est) ==
    /\ IsFin(est.val)
    /\ IsFin(est.sd.of)
    /\ AllFinite(est.prof_mean)

\* C19: cross_calc never reports a coefficient, an sd, a profile value or a
\* table entry that is not a finite number: where the ratio is undefined at
\* a pixel of a labeled region, or the label map has no region, no NaN or
\* infinite value is stored in a, b, c, d, their sd values, cross_df or
\* cross_raw_df.
C19_NoNonFinite ==
    Calculated =>
        /\ \A c \in DOMAIN cr.coef : FiniteEstimate(cr.coef[c])
        /\ \A i \in DOMAIN cr.cross_raw_df : IsFin(cr.cross_raw_df[i].val)
        /\ \A i \in DOMAIN cr.cross_df :
              IsFin(cr.cross_df[i].val) /\ IsFin(cr.cross_df[i].sd.of)

IsGSetInput == gset.kind # "none"

\* C20: a GRegSet built from a dictionary of tandem registrations holds one
\* GReg per dictionary entry; each of its operations G_calc, G_calc_fit,
\* G_fit_pic and draw_pic runs to completion and calls only methods GReg
\* defines; after G_calc, G_df holds one row per registration in
\* dictionary order.
C20_GRegSetRuns ==
    IsGSetInput =>
        /\ gset.kind = "GRegSet"
        /\ Len(gset.tandem_reg_list) = Len(gset.tandem_reg_dict)
        /\ \A i \in DOMAIN gset.tandem_reg_list : gset.tandem_reg_list[i].kind = "GReg"
        /\ gset.err = ""
        /\ gset.tandem_reg_list # <<>> =>
              \A op \in GRegSetOps : \A i \in DOMAIN GRegSetCalls(op) :
                  GRegSetCalls(op)[i] \in GRegMethods
        /\ gset.op = "G_calc" =>
              /\ Len(gset.G_df) = Len(gset.tandem_reg_dict)
              /\ IDs(gset.G_df) = [i \in DOMAIN gset.tandem_reg_dict |-> gset.tandem_reg_dict[i].name]

====
